---- MODULE Spec2Model ----
(***************************************************************************)
(* Complementary product recommendation: the candidate generator           *)
(* (llm_service.get_complementary), the embedding generator                *)
(* (embedding_utils.get_embedding), the vector search                      *)
(* (search_mongodb.find_similar_products_mongodb) and the orchestrating    *)
(* loop of search_mongodb's __main__ block.                                *)
(*                                                                         *)
(* Abstractions.  A text is a sequence of tokens (the empty sequence is    *)
(* the empty string).  Scores are hundredths (96 is 0.96).  A vector is    *)
(* represented by its length, a numpy array by its shape.  Python's None   *)
(* is a record with isNone = TRUE, so that None and [] stay different      *)
(* values.  The embedding model, the generative model and the store are    *)
(* the environment: each call's outcome is chosen nondeterministically.    *)
(***************************************************************************)
EXTENDS Integers, Sequences, FiniteSets, TLC

\* ------------------------------------------------------------------ bounds
\* Largest number of items in one response of the generative model.
MaxItems == 5
\* Number of direct calls of find_similar_products_mongodb explored by SpecSearch.
MaxCalls == 3
\* Number of documents the stocked catalog can rank for one query.
CatalogDepth == 2

\* --------------------------------------------------------------- constants
VECTOR_DIMENSION == 384

\* Scores a raw response may carry, in hundredths; 120 violates le=1.0.
RawScores == {85, 96, 120}
\* Shapes the embedding model's output may have.
Shapes == { <<VECTOR_DIMENSION>>, <<VECTOR_DIMENSION + 1>>,
            <<1, VECTOR_DIMENSION>>, <<1, VECTOR_DIMENSION - 1>>,
            <<2, VECTOR_DIMENSION>>, <<1, 1, VECTOR_DIMENSION>>, << >> }
\* Arguments of the direct calls explored by SpecSearch.
Texts == { << >>, <<1, 1>>, <<2, 2>> }
TopKs == {-1, 0, 1, 2, 6}

\* ------------------------------------------------------------ Python values
NoneVal == [isNone |-> TRUE, items |-> << >>]
ListVal(s) == [isNone |-> FALSE, items |-> s]
NoneVec == [isNone |-> TRUE, len |-> 0]
Vec(n) == [isNone |-> FALSE, len |-> n]
\* Python truthiness of a value that is None or a list.
Truthy(v) == ~v.isNone /\ Len(v.items) > 0

Max(a, b) == IF a >= b THEN a ELSE b
Min(a, b) == IF a <= b THEN a ELSE b

VARIABLES
    embedding_model,            \* "loaded" or "None" (embedding_utils, import time)
    MONGODB_CONNECTION_STRING,  \* TRUE when the environment sets it
    catalog,                    \* "empty" or "stocked": the store's content
    pc,                         \* position of the running code
    gen_failure,                \* what went wrong inside get_complementary
    llm_response,               \* the items as the model emitted them
    recommendations,            \* recommendations["complementary_products"]
    idx,                        \* position of the for loop over the candidates
    recommended_products,       \* the accumulated result
    run_failure,                \* exception that escaped the __main__ block
    query_text, top_k,          \* arguments of the running search call
    embeddings_np,              \* outcome of embedding_model.encode
    query_embedding,            \* value get_embedding returned
    pipeline,                   \* the $vectorSearch stage sent to the store
    similar_items,              \* value the search call returns
    cause,                      \* why the search call returns what it returns
    calls,                      \* remote calls issued by the running search call
    open_clients,               \* MongoClient objects created and not closed
    n_fail, n_hit,              \* store errors / non-empty store answers so far
    outcomes, n_calls,          \* SpecSearch: what callers have observed
    n_llm, n_embed, n_search    \* calls of the generative model, of encode and
                                \* of aggregate issued so far

vars == << embedding_model, MONGODB_CONNECTION_STRING, catalog, pc, gen_failure,
           llm_response, recommendations, idx, recommended_products, run_failure,
           query_text, top_k, embeddings_np, query_embedding, pipeline,
           similar_items, cause, calls, open_clients, n_fail, n_hit, outcomes,
           n_calls, n_llm, n_embed, n_search >>

envVars == << embedding_model, MONGODB_CONNECTION_STRING, catalog >>
mainVars == << gen_failure, llm_response, recommendations, idx,
               recommended_products, run_failure >>
callerVars == << outcomes, n_calls >>
countVars == << n_llm, n_embed, n_search >>

NoEncode == [called |-> FALSE, raised |-> FALSE, shape |-> << >>]
NoPipeline == [sent |-> FALSE, queryVector |-> 0, numCandidates |-> 0, limit |-> 0]

\* ------------------------------------------------- llm_service (generator)
\* One item of the model's response; the k-th emitted item is named k.
Item(k, s) == [product_name |-> k, product_description |-> k, score |-> s]

\* A valid response with one item more than the other responses explored:
\* ProductRecommendations puts no bound on the length of the list, and the
\* prompt's "up to 5" binds the model only by instruction.
OverlongResponse == [k \in 1..(MaxItems + 1) |-> Item(k, 96)]

\* What recommendation_chain.invoke can do: raise, or hand the raw items to
\* the parser.
Invocations ==
    { [raised |-> TRUE, items |-> << >>] } \cup
    { [raised |-> FALSE, items |-> OverlongResponse] } \cup
    { [raised |-> FALSE, items |-> [k \in 1..n |-> Item(k, sc[k])]] :
        n \in 0..MaxItems, sc \in [1..MaxItems -> RawScores] }

\* ProductRelationship: score is Field(ge=0.0, le=1.0).
SchemaValid(items) ==
    \A k \in 1..Len(items) : items[k].score >= 0 /\ items[k].score <= 100

\* Unstable variant: an item goes before the items of equal score.
InsertByScoreBeforeTies(s, x) ==
    LET before == { i \in 1..Len(s) : s[i].score > x.score }
        n == Cardinality(before)
    IN  SubSeq(s, 1, n) \o <<x>> \o SubSeq(s, n + 1, Len(s))

\* One step of the stable descending sort: x goes after every item whose
\* score is at least its own.
InsertByScore(s, x) ==
    LET before == { i \in 1..Len(s) : s[i].score >= x.score }
        n == Cardinality(before)
    IN  SubSeq(s, 1, n) \o <<x>> \o SubSeq(s, n + 1, Len(s))

RECURSIVE SortFrom(_, _)
SortFrom(done, rest) ==
    IF rest = << >> THEN done
    ELSE SortFrom(InsertByScore(done, Head(rest)), Tail(rest))

\* sorted(complementary_list, key=lambda x: x.score, reverse=True)
sorted_complementary(complementary_list) == SortFrom(<< >>, complementary_list)

\* What get_complementary swallows: the kind of failure behind an empty list.
GenFailureOf(llm_given, inv) ==
    IF ~llm_given THEN "LLMNotProvided"
    ELSE IF inv.raised THEN "LLMError"
    ELSE IF ~SchemaValid(inv.items) THEN "MalformedResponse"
    ELSE "none"

\* get_complementary: the dict it returns, as its complementary_products.
get_complementary(llm_given, inv) ==
    IF GenFailureOf(llm_given, inv) /= "none"
    THEN [complementary_products |-> << >>]
    ELSE [complementary_products |-> sorted_complementary(inv.items)]

\* ------------------------------------------------ embedding_utils (embedder)
\* What embedding_model.encode can do for one string.
EncodeOutcomes ==
    { [called |-> TRUE, raised |-> TRUE, shape |-> << >>] } \cup
    { [called |-> TRUE, raised |-> FALSE, shape |-> sh] : sh \in Shapes }

\* get_embedding reaches encode only with a non-empty text and a loaded model.
EncodeCalled(text, model) == text /= << >> /\ model /= "None"

\* A get_embedding without the final length check.
get_embedding_unchecked(text, model, enc) ==
    IF text = << >> THEN NoneVec
    ELSE IF model = "None" THEN NoneVec
    ELSE IF enc.raised THEN NoneVec
    ELSE IF Len(enc.shape) = 2 /\ enc.shape[1] = 1 THEN Vec(enc.shape[2])
    ELSE IF Len(enc.shape) = 1 THEN Vec(enc.shape[1])
    ELSE NoneVec

\* A get_embedding that takes the first row of every 2-D output.
get_embedding_first_row(text, model, enc) ==
    IF text = << >> THEN NoneVec
    ELSE IF model = "None" THEN NoneVec
    ELSE IF enc.raised THEN NoneVec
    ELSE LET ndim == Len(enc.shape)
             embedding_len ==
                 IF ndim = 2 THEN enc.shape[2]
                 ELSE IF ndim = 1 THEN enc.shape[1]
                 ELSE -1
         IN  IF embedding_len = -1 THEN NoneVec
             ELSE IF embedding_len /= VECTOR_DIMENSION THEN NoneVec
             ELSE Vec(embedding_len)

\* get_embedding(text_to_embed), enc being what encode does when called.
get_embedding(text, model, enc) ==
    IF text = << >> THEN NoneVec
    ELSE IF model = "None" THEN NoneVec
    ELSE IF enc.raised THEN NoneVec
    ELSE LET ndim == Len(enc.shape)
             embedding_len ==
                 IF ndim = 2 /\ enc.shape[1] = 1 THEN enc.shape[2]
                 ELSE IF ndim = 1 THEN enc.shape[1]
                 ELSE -1
         IN  IF embedding_len = -1 THEN NoneVec
             ELSE IF embedding_len /= VECTOR_DIMENSION THEN NoneVec
             ELSE Vec(embedding_len)

\* ------------------------------------------------------------ the store
\* The j-th best document of the stocked catalog for a query text, with the
\* store's similarity score.  The best document of the candidate named k is
\* document 10k+1; a later-named candidate's best match scores higher.
Doc(text, j) ==
    [_id |-> 10 * text[1] + j,
     product_name |-> 10 * text[1] + j,
     score |-> 90 + text[1] - 10 * (j - 1)]

\* What collection.aggregate(pipeline) yields when the query runs: the best
\* `limit` documents of the catalog, best first.
StoreAnswer(cat, text, limit) ==
    IF cat = "empty" THEN << >>
    ELSE [j \in 1..Min(limit, CatalogDepth) |-> Doc(text, j)]

\* What the ping can do, and what the aggregate can do.  The store rejects
\* a $vectorSearch stage whose limit is not positive.
PingOutcomes == {"ok", "ConnectionFailure"}
AggregateOutcomes(limit) ==
    IF limit < 1 THEN {"OperationFailure"}
    ELSE {"ok", "OperationFailure", "ConnectionFailure"}

\* ------------------------------------------- search_mongodb (vector search)
\* A pool of 50 whatever top_k is.
num_candidates_fixed(k) == 50

\* Line 56: num_candidates = max(top_k * 10, 50)
num_candidates(k) == Max(k * 10, 50)

\* Both except clauses of find_similar_products_mongodb return None.
ReturnOnException(exc) == NoneVal

\* finally: mongo_client is assigned None and never again, so the client
\* created in the try block is not closed.
AfterFinally(mongo_client_set, open) ==
    IF mongo_client_set THEN open - 1 ELSE open

\* The search call has returned: its locals are gone.
ClearFrame ==
    /\ query_text' = << >>
    /\ top_k' = 0
    /\ embeddings_np' = NoEncode
    /\ query_embedding' = NoneVec
    /\ pipeline' = NoPipeline
    /\ cause' = "none"
    /\ calls' = << >>

\* Lines 28-32: the connection-string check, then get_embedding(query_text).
FS_Embed ==
    /\ pc = "fs_start"
    /\ IF ~MONGODB_CONNECTION_STRING
       THEN /\ similar_items' = NoneVal
            /\ cause' = "NoConnectionString"
            /\ pc' = "ret"
            /\ UNCHANGED << embeddings_np, query_embedding, calls, n_embed >>
       ELSE /\ \E enc \in EncodeOutcomes :
                /\ embeddings_np' =
                       IF EncodeCalled(query_text, embedding_model)
                       THEN enc ELSE NoEncode
                /\ query_embedding' =
                       get_embedding(query_text, embedding_model, enc)
            /\ calls' = IF EncodeCalled(query_text, embedding_model)
                        THEN Append(calls, "encode") ELSE calls
            /\ n_embed' = IF EncodeCalled(query_text, embedding_model)
                          THEN n_embed + 1 ELSE n_embed
            /\ pc' = "fs_check"
            /\ UNCHANGED << similar_items, cause >>
    /\ UNCHANGED << envVars, n_llm, n_search, mainVars, callerVars,
                    query_text, top_k, pipeline,
                    open_clients, n_fail, n_hit >>

\* Lines 34-40: no embedding, or one of the wrong length, returns None.
FS_Check ==
    /\ pc = "fs_check"
    /\ embeddings_np' = NoEncode
    /\ IF query_embedding.isNone
       THEN /\ similar_items' = NoneVal
            /\ cause' = "EmbeddingFailed"
            /\ pc' = "ret"
       ELSE IF query_embedding.len /= VECTOR_DIMENSION
       THEN /\ similar_items' = NoneVal
            /\ cause' = "DimensionMismatch"
            /\ pc' = "ret"
       ELSE /\ pc' = "fs_connect"
            /\ UNCHANGED << similar_items, cause >>
    /\ UNCHANGED << envVars, countVars, mainVars, callerVars, query_text, top_k,
                    query_embedding, pipeline, calls, open_clients, n_fail,
                    n_hit >>

\* Lines 42-48 (and 83-92 when the ping fails): a client is created and pinged.
FS_Connect ==
    /\ pc = "fs_connect"
    /\ calls' = Append(calls, "ping")
    /\ \E out \in PingOutcomes :
        IF out = "ok"
        THEN /\ pc' = "fs_query"
             /\ open_clients' = open_clients + 1
             /\ UNCHANGED << similar_items, cause, n_fail >>
        ELSE /\ similar_items' = ReturnOnException(out)
             /\ cause' = out
             /\ n_fail' = n_fail + 1
             /\ open_clients' = AfterFinally(FALSE, open_clients + 1)
             /\ pc' = "ret"
    /\ UNCHANGED << envVars, countVars, mainVars, callerVars, query_text, top_k,
                    embeddings_np, query_embedding, pipeline, n_hit >>

\* Lines 51-92: the pipeline is built and sent; the result list is returned
\* as the store gave it, an exception returns None.
FS_Aggregate ==
    /\ pc = "fs_query"
    /\ pipeline' = [sent |-> TRUE, queryVector |-> query_embedding.len,
                    numCandidates |-> num_candidates(top_k), limit |-> top_k]
    /\ calls' = Append(calls, "aggregate")
    /\ n_search' = n_search + 1
    /\ \E out \in AggregateOutcomes(top_k) :
        IF out = "ok"
        THEN LET results == StoreAnswer(catalog, query_text, top_k)
             IN  /\ similar_items' = ListVal(results)
                 /\ cause' = "ok"
                 /\ n_hit' = IF results /= << >> THEN n_hit + 1 ELSE n_hit
                 /\ UNCHANGED n_fail
        ELSE /\ similar_items' = ReturnOnException(out)
             /\ cause' = out
             /\ n_fail' = n_fail + 1
             /\ UNCHANGED n_hit
    /\ open_clients' = AfterFinally(FALSE, open_clients)
    /\ pc' = "ret"
    /\ UNCHANGED << envVars, n_llm, n_embed, mainVars, callerVars,
                    query_text, top_k,
                    embeddings_np, query_embedding >>

\* ------------------------------------------ search_mongodb (__main__ block)
\* f"{com_product_name} {com_product_description}": never the empty string.
product_text(item) == << item.product_name, item.product_description >>

\* Lines 137-145: one entry of the result for one document of the store.
Entry(doc) ==
    [product_id |-> doc._id, product_name |-> doc.product_name,
     score |-> doc.score]

\* An accumulation that puts the newest matches first.
AccumulatePrepending(products, items) ==
    IF Truthy(items)
    THEN [j \in 1..Len(items.items) |-> Entry(items.items[j])] \o products
    ELSE products

\* An accumulation that records a placeholder for an empty answer.
AccumulateWithPlaceholder(products, items) ==
    IF Truthy(items)
    THEN products \o [j \in 1..Len(items.items) |-> Entry(items.items[j])]
    ELSE IF ~items.isNone
    THEN Append(products, [product_id |-> 0, product_name |-> 0, score |-> 0])
    ELSE products

\* Lines 135-147: the documents of one candidate are appended in the store's
\* order; None and the empty list add nothing.
Accumulate(products, items) ==
    IF Truthy(items)
    THEN products \o [j \in 1..Len(items.items) |-> Entry(items.items[j])]
    ELSE products

\* A loop that stops at the first search that returns None.
LoopBreaksOnNone(items) == ~items.isNone

\* Lines 146-147: the else branch only prints; the loop goes on.
LoopContinues(items) == TRUE

\* Lines 104-117: the one generator call, then the test that guards the loop.
Generate ==
    /\ pc = "start"
    /\ \E inv \in Invocations :
        LET r == get_complementary(TRUE, inv)
        IN  /\ gen_failure' = GenFailureOf(TRUE, inv)
            /\ llm_response' = inv.items
            /\ recommendations' = r.complementary_products
            /\ pc' = IF r.complementary_products /= << >> THEN "loop" ELSE "done"
    /\ n_llm' = n_llm + 1
    /\ idx' = 1
    /\ recommended_products' = << >>
    /\ UNCHANGED << envVars, n_embed, n_search, callerVars, run_failure,
                    query_text, top_k,
                    embeddings_np, query_embedding, pipeline, similar_items,
                    cause, calls, open_clients, n_fail, n_hit >>

\* Lines 118-129: the next candidate's text is searched with top_k = 1.
LoopCall ==
    /\ pc = "loop"
    /\ idx <= Len(recommendations)
    /\ query_text' = product_text(recommendations[idx])
    /\ top_k' = 1
    /\ pc' = "fs_start"
    /\ UNCHANGED << envVars, countVars, mainVars, callerVars, embeddings_np,
                    query_embedding, pipeline, similar_items, cause, calls,
                    open_clients, n_fail, n_hit >>

\* Lines 135-147: the returned value is consumed.
LoopConsume ==
    /\ pc = "ret"
    /\ recommended_products' = Accumulate(recommended_products, similar_items)
    /\ idx' = idx + 1
    /\ pc' = IF LoopContinues(similar_items) THEN "loop" ELSE "done"
    /\ ClearFrame
    /\ UNCHANGED << envVars, countVars, callerVars, gen_failure, llm_response,
                    recommendations, run_failure, similar_items, open_clients,
                    n_fail, n_hit >>

\* Line 151: the loop is over, the result is printed.
LoopExit ==
    /\ pc = "loop"
    /\ idx > Len(recommendations)
    /\ pc' = "done"
    /\ UNCHANGED << envVars, countVars, mainVars, callerVars, query_text, top_k,
                    embeddings_np, query_embedding, pipeline, similar_items,
                    cause, calls, open_clients, n_fail, n_hit >>

\* --------------------------------------------------------- specifications
InitEnv ==
    /\ embedding_model \in {"loaded", "None"}
    /\ MONGODB_CONNECTION_STRING \in BOOLEAN
    /\ catalog \in {"empty", "stocked"}

InitCommon ==
    /\ InitEnv
    /\ gen_failure = "none"
    /\ llm_response = << >>
    /\ recommendations = << >>
    /\ idx = 1
    /\ recommended_products = << >>
    /\ run_failure = "none"
    /\ query_text = << >>
    /\ top_k = 0
    /\ embeddings_np = NoEncode
    /\ query_embedding = NoneVec
    /\ pipeline = NoPipeline
    /\ similar_items = NoneVal
    /\ cause = "none"
    /\ calls = << >>
    /\ open_clients = 0
    /\ n_fail = 0
    /\ n_hit = 0
    /\ outcomes = {}
    /\ n_calls = 0
    /\ n_llm = 0
    /\ n_embed = 0
    /\ n_search = 0

\* The script is run: the __main__ block of search_mongodb.
Init == InitCommon /\ pc = "start"

Next ==
    \/ Generate
    \/ LoopCall
    \/ FS_Embed
    \/ FS_Check
    \/ FS_Connect
    \/ FS_Aggregate
    \/ LoopConsume
    \/ LoopExit

Spec == Init /\ [][Next]_vars

\* The module is imported and find_similar_products_mongodb is called
\* directly, with any text and any top_k.
SearchCall ==
    /\ pc = "idle"
    /\ n_calls < MaxCalls
    /\ \E t \in Texts, k \in TopKs :
        /\ query_text' = t
        /\ top_k' = k
    /\ n_calls' = n_calls + 1
    /\ similar_items' = NoneVal
    /\ pc' = "fs_start"
    /\ UNCHANGED << envVars, countVars, mainVars, outcomes, embeddings_np,
                    query_embedding, pipeline, cause, calls, open_clients,
                    n_fail, n_hit >>

\* The caller receives the returned value; what it can tell from it is
\* recorded with what had really happened.
SearchReturn ==
    /\ pc = "ret"
    /\ outcomes' = outcomes \cup {[top_k |-> top_k, cause |-> cause,
                                  returned |-> similar_items]}
    /\ pc' = "idle"
    /\ ClearFrame
    /\ UNCHANGED << envVars, countVars, mainVars, n_calls, similar_items,
                    open_clients,
                    n_fail, n_hit >>

InitSearch == InitCommon /\ pc = "idle"

NextSearch ==
    \/ SearchCall
    \/ FS_Embed
    \/ FS_Check
    \/ FS_Connect
    \/ FS_Aggregate
    \/ SearchReturn

SpecSearch == InitSearch /\ [][NextSearch]_vars

\* ------------------------------------------------------------------ claims
Range(f) == { f[i] : i \in DOMAIN f }
InCall == pc \in {"fs_start", "fs_check", "fs_connect", "fs_query", "ret"}
NonIncreasing(items) ==
    \A i \in 1..Len(items), j \in 1..Len(items) :
        i < j => items[i].score >= items[j].score
\* Rank, in the generator's returned order, of the candidate an entry of the
\* result was found for (document 10k+j belongs to the candidate named k).
CandRank(entry) ==
    CHOOSE p \in 0..Len(recommendations) :
        \/ /\ p > 0
           /\ recommendations[p].product_name = entry.product_id \div 10
        \/ /\ p = 0
           /\ \A q \in 1..Len(recommendations) :
                recommendations[q].product_name /= entry.product_id \div 10

\* C1: the result holds the matches of the surviving candidates in the
\* generator's rank order: an entry found for a later candidate never stands
\* before one found for an earlier candidate, every entry is the store's best
\* document for its candidate, and between two searches the result has one
\* entry per candidate the store answered with a document.
C1_OrderPreserved ==
    /\ \A i \in 1..Len(recommended_products), j \in 1..Len(recommended_products) :
          i < j => /\ CandRank(recommended_products[i]) > 0
                   /\ CandRank(recommended_products[i])
                        < CandRank(recommended_products[j])
    /\ \A i \in 1..Len(recommended_products) :
          LET p == CandRank(recommended_products[i])
          IN  /\ p \in 1..(idx - 1) \cup (IF pc = "done" THEN {idx} ELSE {})
              /\ recommended_products[i]
                   = Entry(Doc(product_text(recommendations[p]), 1))
    /\ pc \in {"loop", "done"} => Len(recommended_products) = n_hit

\* C1 witness: a finished run with a skipped candidate in which a later
\* entry has a higher similarity score than an earlier one.
C1_Witness ==
    /\ pc = "done"
    /\ Len(recommended_products) >= 2
    /\ Len(recommended_products) < Len(recommendations)
    /\ recommended_products[1].score < recommended_products[2].score

\* C2 (as claimed): a run whose generator failed ends in a failure of the
\* same kind.
C2_GeneratorFailureSurfaces ==
    (pc = "done" /\ gen_failure /= "none") => run_failure = gen_failure

\* C3: when exactly one candidate's search fails in the store and each of
\* the others is answered with a document, the finished run has one entry
\* per other candidate and raised nothing; and a run in which a search
\* failed still went through every candidate.
C3_PartialFailure ==
    /\ (pc = "done" /\ n_fail >= 1) =>
          /\ idx = Len(recommendations) + 1
          /\ run_failure = "none"
    /\ (pc = "done" /\ n_fail = 1 /\ n_hit = Len(recommendations) - 1) =>
          Len(recommended_products) = Len(recommendations) - 1

\* C3 witness: five candidates, the third one's search failed, the result
\* has the four others' documents.
C3_Witness ==
    /\ pc = "done"
    /\ Len(recommendations) = 5
    /\ n_fail = 1
    /\ n_hit = 4
    /\ Len(recommended_products) = 4
    /\ { CandRank(recommended_products[i]) : i \in 1..4 } = {1, 2, 4, 5}

\* C4 (as claimed): a search call with top_k <= 0 issues no remote call and
\* returns a failure.
C4_NonPositiveTopKRejected ==
    (InCall /\ top_k <= 0) =>
        /\ calls = << >>
        /\ ~pipeline.sent
        /\ pc = "ret" => similar_items.isNone

\* C5: get_embedding returns a vector only if it has VECTOR_DIMENSION
\* elements, and a client is created, pinged or queried only while the call
\* holds a query embedding of exactly VECTOR_DIMENSION elements, which is the
\* vector the pipeline carries.
C5_DimensionInvariant ==
    /\ (pc = "fs_check" /\ ~query_embedding.isNone) =>
          query_embedding.len = VECTOR_DIMENSION
    /\ (pc \in {"fs_connect", "fs_query"} \/ "ping" \in Range(calls)
          \/ "aggregate" \in Range(calls)) =>
          /\ ~query_embedding.isNone
          /\ query_embedding.len = VECTOR_DIMENSION
    /\ pipeline.sent => pipeline.queryVector = VECTOR_DIMENSION

\* C5 witness: the model produced a vector of VECTOR_DIMENSION + 1 elements
\* and get_embedding returned None.
C5_Witness ==
    /\ pc = "fs_check"
    /\ embeddings_np.called /\ ~embeddings_np.raised
    /\ embeddings_np.shape = <<VECTOR_DIMENSION + 1>>
    /\ query_embedding.isNone

\* C6: the generator returns a permutation of the emitted items in
\* non-increasing score order, items of equal score in the order of
\* emission; an emitted list already in that order is returned unchanged and
\* sorting the returned list again changes nothing.
C6_ScoreResort ==
    (pc /= "start" /\ gen_failure = "none") =>
        /\ Len(recommendations) = Len(llm_response)
        /\ Range(recommendations) = Range(llm_response)
        /\ NonIncreasing(recommendations)
        /\ \A i \in 1..Len(recommendations), j \in 1..Len(recommendations) :
              (i < j /\ recommendations[i].score = recommendations[j].score)
                 => recommendations[i].product_name
                      < recommendations[j].product_name
        /\ NonIncreasing(llm_response) => recommendations = llm_response
        /\ sorted_complementary(recommendations) = recommendations

\* C6 witness: the model emitted three or more items in strictly wrong order
\* somewhere and with a tie somewhere, and the generator returned.
C6_Witness ==
    /\ pc = "loop"
    /\ Len(llm_response) >= 3
    /\ llm_response[1].score < llm_response[Len(llm_response)].score
    /\ \E i \in 1..Len(llm_response), j \in 1..Len(llm_response) :
          i < j /\ llm_response[i].score = llm_response[j].score
    /\ recommendations /= llm_response

\* C7 (as claimed): every output whose rank is not 1 makes get_embedding
\* return None.
C7_EveryOtherRankFails ==
    (pc = "fs_check" /\ embeddings_np.called /\ ~embeddings_np.raised
       /\ Len(embeddings_np.shape) /= 1) => query_embedding.isNone

\* C7 (amended): an output whose rank is not 1 makes get_embedding return
\* None unless it is a 2-D output with exactly one row; a returned vector has
\* the length of the output's last axis, VECTOR_DIMENSION: nothing is
\* flattened, cut or padded.
C7_ShapeNotCoerced ==
    (pc = "fs_check" /\ embeddings_np.called /\ ~embeddings_np.raised) =>
        LET shape == embeddings_np.shape
        IN  /\ (Len(shape) /= 1 /\ ~(Len(shape) = 2 /\ shape[1] = 1))
                  => query_embedding.isNone
            /\ ~query_embedding.isNone =>
                  /\ Len(shape) \in {1, 2}
                  /\ query_embedding.len = shape[Len(shape)]
                  /\ shape[Len(shape)] = VECTOR_DIMENSION

\* C7 witness: the model produced a 2-D output of two rows and get_embedding
\* returned None.
C7_Witness ==
    /\ pc = "fs_check"
    /\ embeddings_np.called /\ ~embeddings_np.raised
    /\ embeddings_np.shape = <<2, VECTOR_DIMENSION>>
    /\ query_embedding.isNone

\* C8 (as claimed): what a search call with top_k >= 1 returns tells a
\* connectivity failure, a query failure and a successful search apart.
C8_FailureKindsDistinguishable ==
    \A a \in outcomes, b \in outcomes :
        (/\ a.top_k >= 1 /\ b.top_k >= 1
         /\ a.cause \in {"ConnectionFailure", "OperationFailure", "ok"}
         /\ b.cause \in {"ConnectionFailure", "OperationFailure", "ok"}
         /\ a.cause /= b.cause) => a.returned /= b.returned

\* C9 (as claimed): with no embedding model (and the store configured) every
\* get_embedding call fails, no client is created for it, and a run with
\* candidates ends in a failure.
C9_ModelUnavailableSurfaces ==
    (embedding_model = "None" /\ MONGODB_CONNECTION_STRING) =>
        /\ pc = "fs_check" => query_embedding.isNone
        /\ open_clients = 0
        /\ "ping" \notin Range(calls)
        /\ (pc = "done" /\ gen_failure = "none" /\ Len(recommendations) >= 1)
              => run_failure /= "none"

\* C10: with an empty catalog a run whose generator succeeded goes through
\* every candidate and ends with an empty result and no exception.
C10_EmptyCatalog ==
    (catalog = "empty" /\ gen_failure = "none") =>
        /\ recommended_products = << >>
        /\ run_failure = "none"
        /\ pc = "done" => idx > Len(recommendations)

\* C10 witness: five candidates, each one's search was answered with no
\* document, and the run is finished with an empty result.
C10_Witness ==
    /\ pc = "done"
    /\ catalog = "empty"
    /\ Len(recommendations) = 5
    /\ open_clients = 5
    /\ n_fail = 0
    /\ recommended_products = << >>

\* C11 (as claimed): once a search call has returned, no client it created
\* is still open.
C11_ConnectionsClosed ==
    pc \in {"ret", "loop", "done"} => open_clients = 0

\* C12 (as claimed): a run issues one generative-model call, before any
\* embedding or search call; a search call issues at most one embedding call
\* and then at most one vector-search query; and the run issues at most 5
\* embedding calls and at most 5 vector-search queries.
C12_BoundedCallSequence ==
    /\ n_llm = (IF pc = "start" THEN 0 ELSE 1)
    /\ (n_embed > 0 \/ n_search > 0 \/ open_clients > 0) => n_llm = 1
    /\ \E n \in 0..3 : calls = SubSeq(<<"encode", "ping", "aggregate">>, 1, n)
    /\ n_search <= n_embed
    /\ n_embed <= 5
    /\ n_search <= 5

\* C13: for top_k >= 1 the stage sent to the store has numCandidates =
\* max(10 * top_k, 50), more than top_k, and limit = top_k; a search that
\* succeeded returns the store's documents as the store gave them, at most
\* top_k of them.
C13_CandidatePool ==
    /\ (pipeline.sent /\ top_k >= 1) =>
          /\ pipeline.numCandidates
               = (IF 10 * top_k >= 50 THEN 10 * top_k ELSE 50)
          /\ pipeline.numCandidates > top_k
          /\ pipeline.limit = top_k
    /\ (pc = "ret" /\ cause = "ok" /\ top_k >= 1) =>
          /\ ~similar_items.isNone
          /\ similar_items.items
               = StoreAnswer(catalog, query_text, pipeline.limit)
          /\ Len(similar_items.items) <= top_k

\* C13 witness: a search with top_k = 6 was answered with the two documents
\* the catalog ranks, from a pool of 60.
C13_Witness ==
    /\ pc = "ret"
    /\ cause = "ok"
    /\ top_k = 6
    /\ pipeline.numCandidates = 60
    /\ Len(similar_items.items) = CatalogDepth
    /\ similar_items.items[1].score > similar_items.items[2].score

====
